---- MODULE Spec2Model ----
(***************************************************************************)
(* A model of tsrc's task executors (tsrc/executor.py) and of the          *)
(* repository synchronizer that runs on top of them                        *)
(* (tsrc/workspace/syncer.py).                                             *)
(*                                                                         *)
(* Python values are tuples of strings: None is <<"None">>, a str is       *)
(* <<"str", s>>, an int is <<"int", n>>, an exception is                   *)
(* <<"Error", message, ...>>.  A dict is the sequence of its               *)
(* <<key, value>> pairs in insertion order.                                *)
(***************************************************************************)
EXTENDS Integers, Sequences, FiniteSets, TLC

\* ------------------------------------------------------------------ bounds
\* The longest list of items handed to an executor.
MaxItems == 3
\* The largest num_jobs (width of the thread pool).
MaxJobs == 2

\* ------------------------------------------------------------ Python values
None == <<"None">>

\* Python's truth value of None, "" and 0 is false.
Truthy(v) ==
    /\ v # None
    /\ v # <<"str", "">>
    /\ v # <<"int", 0>>

\* dict: d[k] = v keeps the place of a key that is already there.
DictKeys(d) == {d[i][1] : i \in DOMAIN d}

DictGet(d, k) == d[CHOOSE i \in DOMAIN d : d[i][1] = k][2]

\* A dict that puts a new key before the others.
DictSet_front(d, k, v) ==
    IF k \in DictKeys(d)
    THEN [i \in DOMAIN d |-> IF d[i][1] = k THEN <<k, v>> ELSE d[i]]
    ELSE <<<<k, v>>>> \o d

DictSet(d, k, v) ==
    IF k \in DictKeys(d)
    THEN [i \in DOMAIN d |-> IF d[i][1] = k THEN <<k, v>> ELSE d[i]]
    ELSE Append(d, <<k, v>>)

\* ------------------------------------------------------------------ Outcome
Outcome(err, msg) == [error |-> err, summary |-> msg]

empty == Outcome(None, None)

from_error(error) == Outcome(error, None)

from_summary(message) == Outcome(None, message)

success(outcome) == outcome.error = None

\* --------------------------------------------------------------------- Task
\* The items of the generic task: a name (its description) and what
\* processing it does.
ItemNames == <<"foo", "bar", "baz", "quux", "spam", "eggs">>

\* What task.process may do with an item; the lists of Init hold items that
\* return a summary and items that raise the domain Error.
AllKinds == {"ok", "summary", "failing", "crashing"}

ItemKinds == {"summary", "failing"}

describe_item(item) == item.name

describe_process_start(item) == <<"Frobnicating", item.name>>

describe_process_end(item) == <<item.name, "ok">>

Kaboom(item) == <<"Error", "Kaboom", item.name>>

\* task.process(index, count, item): returns an Outcome, raises the domain
\* Error, or raises an exception that is no Error.  What an item does is
\* fixed by the item, never by the order of execution.
TaskProcess(item) ==
    CASE item.kind = "ok" -> [raises |-> "no", value |-> empty]
      [] item.kind = "summary" ->
            [raises |-> "no", value |-> from_summary(<<"str", item.name>>)]
      [] item.kind = "failing" -> [raises |-> "Error", error |-> Kaboom(item)]
      [] OTHER -> [raises |-> "Exception",
                   error |-> <<"RuntimeError", item.name>>]

\* ---------------------------------------------------------------- variables
VARIABLES
    items,          \* the list handed to process_items
    num_jobs,       \* process_items' num_jobs: None or an int
    parallel,       \* task.parallel
    main_pc,        \* where the calling thread is
    index,          \* SequentialExecutor.process: the loop's index
    result,         \* the executor's result dict
    pc,             \* where each submitted process_item call is
    futures,        \* what task.process did in each process_item call
    loaded,         \* the done_count each worker read for its += 1
    done_count,     \* ParallelExecutor.done_count
    lock,           \* ParallelExecutor.lock: 0, or the worker holding it
    term,           \* the terminal: the lines written and the current line
    end_index,      \* the indexes the end-of-item progress lines showed
    collected,      \* the futures as_completed has yielded
    exception,      \* the exception that ended the calling thread
    collection,     \* the OutcomeCollection: summary and errors
    raised,         \* whether handle_result raised ExecutorFailed
    report,         \* what handle_result printed
    calls,          \* how often task.process was called for each item
    \* Syncer, and the clone it works on
    repo,           \* the Repo of the manifest: dest, remotes, branch, tag, sha1
    force,          \* Syncer.force
    remote_name,    \* Syncer.remote_name: "" when not given
    bad_branches,   \* Syncer.bad_branches
    sync_pc,        \* where Syncer.process is
    picked,         \* fetch: the remotes _pick_remotes returned
    fetch_i,        \* fetch: the place in picked of the next remote
    summary,        \* process: its local summary
    sync_error,     \* the Error that Syncer.process raised, or None
    cmds,           \* the git commands run in the clone, in order
    git,            \* the clone: head, branch, dirty, upstream, tag
    git0,           \* the clone when Syncer.process was called
    visited,        \* the steps of Syncer.process that were run
    bad_raised,     \* display_bad_branches: "no", "returned" or "BadBranches"
    \* RemoteSetter, and the clones it works on
    rs_repos,       \* the Repos of the manifest handed to the executor
    rs_local,       \* the remotes of each clone: a dict name -> url
    rs_local0,      \* the remotes of each clone at the start
    rs_summary,     \* RemoteSetter.summary
    rs_cmds,        \* the git remote commands run, in order, with their dest
    rs_pc,          \* where the run over rs_repos is
    rs_index,       \* the place in rs_repos of the repo being processed
    rs_j,           \* process: the place in repo.remotes of the next remote
    rs_result,      \* the executor's result dict
    rs_first        \* what a first run over rs_repos left: <<>> during it

execVars ==
    <<items, num_jobs, parallel, main_pc, index, result, pc, futures, loaded,
      done_count, lock, term, end_index, collected, exception, collection,
      raised, report, calls>>

syncVars ==
    <<repo, force, remote_name, bad_branches, sync_pc, picked, fetch_i,
      summary, sync_error, cmds, git, git0, visited, bad_raised>>

setterVars ==
    <<rs_repos, rs_local, rs_local0, rs_summary, rs_cmds, rs_pc, rs_index,
      rs_j, rs_result, rs_first>>

vars == <<execVars, syncVars, setterVars>>

count == Len(items)

\* --------------------------------------------------------------------- Init
\* Lists of at most MaxItems items with pairwise distinct descriptions (the
\* k-th item is named ItemNames[k]), each of any kind.
ItemLists ==
    UNION {
        {[k \in 1..n |-> [name |-> ItemNames[k], kind |-> kinds[k]]] :
            kinds \in [1..n -> ItemKinds]} :
        n \in 0..MaxItems}

NumJobs == {None} \cup {<<"int", n>> : n \in -1..MaxJobs}

ExecIdle ==
    /\ index = 0
    /\ result = <<>>
    /\ pc = [i \in 1..count |-> "none"]
    /\ futures = [i \in 1..count |-> [raises |-> "pending"]]
    /\ loaded = [i \in 1..count |-> 0]
    /\ done_count = 0
    /\ lock = 0
    /\ term = [lines |-> <<>>, current |-> <<>>]
    /\ end_index = <<>>
    /\ collected = {}
    /\ exception = None
    /\ collection = [summary |-> <<>>, errors |-> <<>>]
    /\ raised = FALSE
    /\ report = <<>>
    /\ calls = [i \in 1..count |-> 0]

SyncIdle ==
    /\ repo = [dest |-> "", remotes |-> <<>>, branch |-> "", tag |-> "",
               sha1 |-> 0]
    /\ force = FALSE
    /\ remote_name = ""
    /\ bad_branches = <<>>
    /\ sync_pc = "none"
    /\ picked = <<>>
    /\ fetch_i = 0
    /\ summary = <<>>
    /\ sync_error = None
    /\ cmds = <<>>
    /\ git = [head |-> 1, branch |-> "", dirty |-> FALSE, upstream |-> 0,
              tag |-> 0]
    /\ git0 = git
    /\ visited = {}
    /\ bad_raised = "no"

SetterIdle ==
    /\ rs_repos = <<>>
    /\ rs_local = <<>>
    /\ rs_local0 = <<>>
    /\ rs_summary = <<>>
    /\ rs_cmds = <<>>
    /\ rs_pc = "none"
    /\ rs_index = 0
    /\ rs_j = 0
    /\ rs_result = <<>>
    /\ rs_first = <<>>

Init ==
    /\ items \in ItemLists
    /\ num_jobs \in NumJobs
    /\ main_pc = "process_items"
    /\ parallel = FALSE
    /\ ExecIdle
    /\ SyncIdle
    /\ SetterIdle

\* ------------------------------------------------------- SequentialExecutor
\* try: outcome = task.process(...) / except Error as e: from_error(e)
SeqCapture(r) == IF r.raises = "Error" THEN from_error(r.error) ELSE r.value

\* A turn that files every outcome under the first item's description.
SeqTurnFirstKey(res, item) ==
    DictSet(res, describe_item(items[1]), SeqCapture(TaskProcess(item)))

\* item_desc = ...; outcome = ...; result[item_desc] = outcome
SeqTurn(res, item) ==
    DictSet(res, describe_item(item), SeqCapture(TaskProcess(item)))

\* One turn of the loop of SequentialExecutor.process, or its return.
SequentialExecutor_process ==
    /\ main_pc = "sequential"
    /\ calls' = IF index < count THEN [calls EXCEPT ![index + 1] = @ + 1]
                                 ELSE calls
    /\ IF index < count
       THEN LET item == items[index + 1]
                r == TaskProcess(item)
            IN  IF r.raises = "Exception"
                THEN /\ main_pc' = "crashed"
                     /\ exception' = r.error
                     /\ UNCHANGED <<index, result>>
                ELSE /\ result' = SeqTurn(result, item)
                     /\ index' = index + 1
                     /\ UNCHANGED <<main_pc, exception>>
       ELSE /\ main_pc' = "return"
            /\ UNCHANGED <<index, result, exception>>
    /\ UNCHANGED syncVars
    /\ UNCHANGED <<items, num_jobs, parallel, pc, futures, loaded,
                   done_count, lock, term, end_index, collected,
                   collection, raised, report>>
    /\ UNCHANGED setterVars

\* ----------------------------------------------------------------- terminal
\* erase_last_line(): the current line is blanked, the cursor at its start.
erase_last_line(t) == [t EXCEPT !.current = <<>>]

\* ui.info_count(index, count, *tokens, end="\r"): the line is written over
\* the current one and the cursor goes back to its start.
info_count(t, i, n, tokens) ==
    [t EXCEPT !.current = <<<<"int", i>>, <<"int", n>>, tokens>>]

\* ui.info(): a newline; the current line stays on the screen.
info_newline(t) == [lines |-> Append(t.lines, t.current), current |-> <<>>]

\* --------------------------------------------------------- ParallelExecutor
\* A lookup that always gives the first item.
item_of_first(i) == items[1]

item_of(i) == items[i]

\* A pool that never counts a call as running.
Running_none == {}

\* A pool whose workers are not freed when their call has ended.
Running_forever == {j \in 1..count : pc[j] \notin {"none", "queued"}}

\* ThreadPoolExecutor: a queued call starts when a worker is free, in the
\* order of submission.
Running == {j \in 1..count : pc[j] \notin {"none", "queued", "done"}}

Dequeue(i) ==
    /\ pc[i] = "queued"
    /\ \A j \in 1..(i - 1) : pc[j] # "queued"
    /\ Cardinality(Running) < num_jobs[2]
    /\ pc' = [pc EXCEPT ![i] = "start"]
    /\ UNCHANGED syncVars
    /\ UNCHANGED <<items, num_jobs, parallel, main_pc, index, result,
                   futures, loaded, done_count, lock, term, end_index,
                   collected, exception, collection, raised, report, calls>>
    /\ UNCHANGED setterVars

\* A lock that is never waited for.
acquire_any(l) == TRUE

\* with self.lock: the lock is taken when no worker holds it.
acquire(l) == l = 0

\* process_item: with self.lock: erase_last_line() ...
StartLock(i) ==
    /\ pc[i] = "start"
    /\ IF describe_process_start(item_of(i)) # <<>>
       THEN /\ acquire(lock)
            /\ lock' = i
            /\ term' = erase_last_line(term)
            /\ pc' = [pc EXCEPT ![i] = "start_locked"]
       ELSE /\ pc' = [pc EXCEPT ![i] = "process"]
            /\ UNCHANGED <<lock, term>>
    /\ UNCHANGED syncVars
    /\ UNCHANGED <<items, num_jobs, parallel, main_pc, index, result,
                   futures, loaded, done_count, end_index, collected,
                   exception, collection, raised, report, calls>>
    /\ UNCHANGED setterVars

\* ... ui.info_count(index, count, *tokens, end="\r"), and the lock's release.
StartPrint(i) ==
    /\ pc[i] = "start_locked"
    /\ term' = info_count(term, i - 1, count,
                          describe_process_start(item_of(i)))
    /\ lock' = 0
    /\ pc' = [pc EXCEPT ![i] = "process"]
    /\ UNCHANGED syncVars
    /\ UNCHANGED <<items, num_jobs, parallel, main_pc, index, result,
                   futures, loaded, done_count, end_index, collected,
                   exception, collection, raised, report, calls>>
    /\ UNCHANGED setterVars

\* result = self.task.process(index, count, item); an exception leaves
\* process_item at once.  Then the read of self.done_count += 1.
Process(i) ==
    /\ pc[i] = "process"
    /\ LET r == TaskProcess(item_of(i))
       IN  /\ futures' = [futures EXCEPT ![i] = r]
           /\ calls' = [calls EXCEPT ![i] = @ + 1]
           /\ IF r.raises = "no"
              THEN /\ loaded' = [loaded EXCEPT ![i] = done_count]
                   /\ pc' = [pc EXCEPT ![i] = "store"]
              ELSE /\ pc' = [pc EXCEPT ![i] = "done"]
                   /\ UNCHANGED loaded
    /\ UNCHANGED syncVars
    /\ UNCHANGED <<items, num_jobs, parallel, main_pc, index, result,
                   done_count, lock, term, end_index, collected, exception,
                   collection, raised, report>>
    /\ UNCHANGED setterVars

\* The write of self.done_count += 1.
Store(i) ==
    /\ pc[i] = "store"
    /\ done_count' = loaded[i] + 1
    /\ pc' = [pc EXCEPT ![i] = "end"]
    /\ UNCHANGED syncVars
    /\ UNCHANGED <<items, num_jobs, parallel, main_pc, index, result,
                   futures, loaded, lock, term, end_index, collected,
                   exception, collection, raised, report, calls>>
    /\ UNCHANGED setterVars

\* with self.lock: erase_last_line() ...
EndLock(i) ==
    /\ pc[i] = "end"
    /\ IF describe_process_end(item_of(i)) # <<>>
       THEN /\ acquire(lock)
            /\ lock' = i
            /\ term' = erase_last_line(term)
            /\ pc' = [pc EXCEPT ![i] = "end_locked"]
       ELSE /\ pc' = [pc EXCEPT ![i] = "done"]
            /\ UNCHANGED <<lock, term>>
    /\ UNCHANGED syncVars
    /\ UNCHANGED <<items, num_jobs, parallel, main_pc, index, result,
                   futures, loaded, done_count, end_index, collected,
                   exception, collection, raised, report, calls>>
    /\ UNCHANGED setterVars

\* ... ui.info_count(self.done_count - 1, count, *tokens, end="\r") ...
EndPrint(i) ==
    /\ pc[i] = "end_locked"
    /\ term' = info_count(term, done_count - 1, count,
                          describe_process_end(item_of(i)))
    /\ end_index' = Append(end_index, done_count - 1)
    /\ pc' = [pc EXCEPT ![i] = "end_printed"]
    /\ UNCHANGED syncVars
    /\ UNCHANGED <<items, num_jobs, parallel, main_pc, index, result,
                   futures, loaded, done_count, lock, collected, exception,
                   collection, raised, report, calls>>
    /\ UNCHANGED setterVars

\* ... if self.done_count == count: ui.info(), the lock's release and the
\* return of result.
EndNewline(i) ==
    /\ pc[i] = "end_printed"
    /\ term' = IF done_count = count THEN info_newline(term) ELSE term
    /\ lock' = 0
    /\ pc' = [pc EXCEPT ![i] = "done"]
    /\ UNCHANGED syncVars
    /\ UNCHANGED <<items, num_jobs, parallel, main_pc, index, result,
                   futures, loaded, done_count, end_index, collected,
                   exception, collection, raised, report, calls>>
    /\ UNCHANGED setterVars

\* A capture that loses the error.
ParCaptureLost(r) == IF r.raises = "Error" THEN empty ELSE r.value

\* try: outcome = future.result() / except Error as e: from_error(e)
ParCapture(r) == IF r.raises = "Error" THEN from_error(r.error) ELSE r.value

\* A turn that files every outcome under the first item's description.
ParTurnFirstKey(res, i) ==
    DictSet(res, describe_item(item_of(1)), ParCapture(futures[i]))

\* item = futures_to_item[future]; outcome = ...; result[description] = outcome
ParTurn(res, i) ==
    DictSet(res, describe_item(item_of(i)), ParCapture(futures[i]))

\* One turn of "for future in as_completed(futures_to_item)": a finished
\* future that was not yielded yet.
Collect(i) ==
    /\ main_pc = "as_completed"
    /\ pc[i] = "done"
    /\ i \notin collected
    /\ IF futures[i].raises = "Exception"
       THEN /\ main_pc' = "shutdown"
            /\ exception' = futures[i].error
            /\ UNCHANGED <<result, collected>>
       ELSE /\ result' = ParTurn(result, i)
            /\ collected' = collected \cup {i}
            /\ UNCHANGED <<main_pc, exception>>
    /\ UNCHANGED syncVars
    /\ UNCHANGED <<items, num_jobs, parallel, index, pc, futures, loaded,
                   done_count, lock, term, end_index, collection, raised,
                   report, calls>>
    /\ UNCHANGED setterVars

\* The end of the with block waits for every submitted call; then
\* erase_last_line() and return result, or the exception goes on.
ParallelExecutor_return ==
    /\ \A i \in 1..count : pc[i] = "done"
    /\ \/ /\ main_pc = "as_completed"
          /\ collected = 1..count
          /\ term' = erase_last_line(term)
          /\ main_pc' = "return"
       \/ /\ main_pc = "shutdown"
          /\ main_pc' = "crashed"
          /\ UNCHANGED term
    /\ UNCHANGED syncVars
    /\ UNCHANGED <<items, num_jobs, parallel, index, result, pc, futures,
                   loaded, done_count, lock, end_index, collected,
                   exception, collection, raised, report, calls>>
    /\ UNCHANGED setterVars

\* ------------------------------------------------------------ process_items
\* task.parallel = False; SequentialExecutor(task).process(items)
process_items_sequence ==
    /\ parallel' = FALSE
    /\ main_pc' = "sequential"
    /\ UNCHANGED <<index, result, pc, done_count, lock, exception>>

\* task.parallel = True; ParallelExecutor(task, num_jobs).process(items):
\* nothing to do for no items, else a pool of num_jobs workers and one
\* submitted process_item call per item.
process_items_parallel ==
    /\ parallel' = TRUE
    /\ done_count' = 0
    /\ lock' = 0
    /\ IF items = <<>>
       THEN /\ result' = <<>>
            /\ main_pc' = "return"
            /\ UNCHANGED <<pc, exception>>
       ELSE IF num_jobs[2] <= 0
       THEN /\ exception' = <<"ValueError", "max_workers">>
            /\ main_pc' = "crashed"
            /\ UNCHANGED <<pc, result>>
       ELSE /\ pc' = [i \in 1..count |-> "queued"]
            /\ main_pc' = "as_completed"
            /\ UNCHANGED <<result, exception>>
    /\ UNCHANGED index

process_items ==
    /\ main_pc = "process_items"
    /\ IF Truthy(num_jobs) THEN process_items_parallel
                           ELSE process_items_sequence
    /\ UNCHANGED syncVars
    /\ UNCHANGED <<items, num_jobs, futures, loaded, term, end_index,
                   collected, collection, raised, report, calls>>
    /\ UNCHANGED setterVars

\* -------------------------------------------------------- OutcomeCollection
IsOutcome(v) == DOMAIN v = {"error", "summary"}

\* A summary list that keeps every summary that is not None.
CollectionSummaryNotNone(outcomes) ==
    LET kept == SelectSeq(outcomes, LAMBDA e : e[2].summary # None)
    IN  [i \in DOMAIN kept |-> kept[i][2].summary]

\* self.summary: the truthy summaries, in the dict's order.
CollectionSummary(outcomes) ==
    LET kept == SelectSeq(outcomes, LAMBDA e : Truthy(e[2].summary))
    IN  [i \in DOMAIN kept |-> kept[i][2].summary]

\* An outcome is filed under its summary or else under its error.
CollectionErrorsElse(outcomes) ==
    LET kept == SelectSeq(outcomes, LAMBDA e : /\ ~Truthy(e[2].summary)
                                               /\ Truthy(e[2].error))
    IN  [i \in DOMAIN kept |-> <<kept[i][1], kept[i][2].error>>]

\* self.errors: item -> error, for the truthy errors, in the dict's order.
CollectionErrors(outcomes) ==
    LET kept == SelectSeq(outcomes, LAMBDA e : Truthy(e[2].error))
    IN  [i \in DOMAIN kept |-> <<kept[i][1], kept[i][2].error>>]

\* return OutcomeCollection(res); a value without .summary and .error ends
\* the constructor with an AttributeError.
OutcomeCollection_init ==
    /\ main_pc = "return"
    /\ IF \A i \in DOMAIN result : IsOutcome(result[i][2])
       THEN /\ collection' = [summary |-> CollectionSummary(result),
                              errors |-> CollectionErrors(result)]
            /\ main_pc' = "collection"
            /\ UNCHANGED exception
       ELSE /\ exception' = <<"AttributeError", "summary">>
            /\ main_pc' = "crashed"
            /\ UNCHANGED collection
    /\ UNCHANGED syncVars
    /\ UNCHANGED <<items, num_jobs, parallel, index, result, pc, futures,
                   loaded, done_count, lock, term, end_index, collected,
                   raised, report, calls>>
    /\ UNCHANGED setterVars

SummaryTitles == {None, <<"str", "Updated repos:">>}

\* What handle_result prints: the title and the summaries, then the message
\* and one line per error.
Printed(error_message, summary_title) ==
    (IF collection.summary # <<>>
     THEN (IF Truthy(summary_title) THEN <<summary_title>> ELSE <<>>)
          \o collection.summary
     ELSE <<>>)
    \o (IF collection.errors # <<>>
        THEN <<error_message>>
             \o [i \in DOMAIN collection.errors |->
                    <<"*", collection.errors[i][1], ":",
                      collection.errors[i][2]>>]
        ELSE <<>>)

\* if self.errors: ... raise ExecutorFailed
handle_result ==
    /\ main_pc = "collection"
    /\ \E summary_title \in SummaryTitles :
          report' = Printed(<<"str", "Failed">>, summary_title)
    /\ raised' = (collection.errors # <<>>)
    /\ main_pc' = "handled"
    /\ UNCHANGED syncVars
    /\ UNCHANGED <<items, num_jobs, parallel, index, result, pc, futures,
                   loaded, done_count, lock, term, end_index, collected,
                   exception, collection, calls>>
    /\ UNCHANGED setterVars

\* ------------------------------------------------------- the clone and git
\* The commits: 1 is the root and the parent of c is c \div 2, so that 2 and 3
\* are two children of 1 and have diverged.
MaxCommit == 3

Commits == 1..MaxCommit

RECURSIVE Ancestor(_, _)
\* a is b or an ancestor of b
Ancestor(a, b) ==
    IF a = b THEN TRUE
    ELSE IF b <= 1 THEN FALSE
    ELSE Ancestor(a, b \div 2)

Sha1Names == <<"c1", "c2", "c3", "c4", "c5", "c6">>

TagNames == {"v0.2"}

\* The commits a tag is seen at: the root and the newest commit.
TagCommits == {1, MaxCommit}

\* The remote whose branch the current branch tracks.
UpstreamRemote == "origin"

\* git fetch --tags --prune <remote> [--force], when it succeeds: the
\* tracking branch of that remote moves to wherever the remote's branch is,
\* or is pruned (0); a tag that is new arrives, a tag that is there moves
\* only with --force.
FetchResults(g, remote, forced) ==
    {[g EXCEPT !.upstream = u, !.tag = t] :
        u \in (IF remote.name = UpstreamRemote THEN 0..MaxCommit
                                              ELSE {g.upstream}),
        t \in (IF g.tag = 0 THEN {0} \cup TagCommits
               ELSE IF forced THEN TagCommits
               ELSE {g.tag})}

\* The commit a ref names in the clone, 0 when it names none: a tag name
\* is looked up in the clone's tags, a sha1 is the commit itself.
ResolveRef(g, ref) ==
    IF ref \in TagNames THEN g.tag
    ELSE CHOOSE c \in Commits : Sha1Names[c] = ref

\* git reset --hard <ref>: HEAD and the working tree are moved to the commit;
\* it fails for a ref that names nothing, and a sha1 may be of a commit the
\* clone never got.
ResetHard(g, ref) ==
    (IF ResolveRef(g, ref) # 0
     THEN {[ok |-> TRUE,
            git |-> [g EXCEPT !.head = ResolveRef(g, ref), !.dirty = FALSE]]}
     ELSE {})
    \cup (IF ref \in TagNames /\ g.tag # 0 THEN {}
          ELSE {[ok |-> FALSE, git |-> g]})

\* git log --oneline HEAD..@{upstream}: fails without an upstream, else
\* lists the commits of the upstream that HEAD does not have.
LogUpstream(g) ==
    IF g.upstream = 0 THEN [rc |-> 128, out |-> {}]
    ELSE [rc |-> 0,
          out |-> {c \in Commits : Ancestor(c, g.upstream)
                                   /\ ~Ancestor(c, g.head)}]

\* What git prints for a merge, with and without a newline at its end.
MergeOutputs == {<<"Fast-forward", "\n">>, <<"Fast-forward">>}

\* git merge --ff-only @{upstream}: nothing to do when HEAD has the upstream,
\* HEAD moves to the upstream when it is ahead of HEAD (unless local changes
\* are in the way), and it fails when there is no upstream or the two have
\* diverged.
MergeFF(g) ==
    IF g.upstream = 0 THEN {[ok |-> FALSE, git |-> g]}
    ELSE IF Ancestor(g.upstream, g.head) THEN {[ok |-> TRUE, git |-> g]}
    ELSE IF Ancestor(g.head, g.upstream)
    THEN {[ok |-> TRUE, git |-> [g EXCEPT !.head = g.upstream]]}
         \cup (IF g.dirty THEN {[ok |-> FALSE, git |-> g]} ELSE {})
    ELSE {[ok |-> FALSE, git |-> g]}

\* The Error run_git and run_git_captured(check=True) raise.
GitError(cmd) == <<"Error", "git command failed", cmd>>

\* ------------------------------------------------------------------- Syncer
workspace_path == "workspace"

RemoteTable ==
    <<[name |-> "origin", url |-> "url1"], [name |-> "vpn", url |-> "url2"],
      [name |-> "other", url |-> "url3"], [name |-> "backup", url |-> "url4"]>>

\* The longest list of remotes of a repo.
MaxRemotes == 2

Repos ==
    {[dest |-> "foo", remotes |-> SubSeq(RemoteTable, 1, n),
      branch |-> "master", tag |-> t, sha1 |-> c] :
        n \in 1..MaxRemotes, t \in {""} \cup TagNames, c \in {0, MaxCommit}}

RemoteNameArgs == {"", "origin", "vpn"}

Clones ==
    [head : Commits, branch : {"master", "devel", ""}, dirty : BOOLEAN,
     upstream : 0..MaxCommit, tag : {0, 1}]

\* A sync of one repo: the executor is about to call Syncer.process on it.
SyncInit ==
    /\ items = <<>>
    /\ num_jobs = None
    /\ parallel \in BOOLEAN
    /\ ExecIdle
    /\ main_pc = "task.process"
    /\ repo \in Repos
    /\ force \in BOOLEAN
    /\ remote_name \in RemoteNameArgs
    /\ git \in Clones
    /\ git0 = git
    /\ bad_branches = <<>>
    /\ sync_pc = "process"
    /\ picked = <<>>
    /\ fetch_i = 0
    /\ summary = <<>>
    /\ sync_error = None
    /\ cmds = <<>>
    /\ visited = {}
    /\ bad_raised = "no"
    /\ SetterIdle

\* Task.info, info_2, info_3, info_count: a line, unless run in parallel.
Task_info(t, tokens) ==
    IF parallel THEN t ELSE [t EXCEPT !.lines = Append(@, tokens)]

Syncer_describe_item(rp) == rp.dest

repo_path(rp) == <<workspace_path, rp.dest>>

\* A choice that does not look at remote_name.
pick_remotes_all(rp) == [raises |-> "no", value |-> rp.remotes]

\* _pick_remotes: the remote named remote_name, or all of them.
pick_remotes(rp) ==
    IF remote_name # ""
    THEN IF \E k \in DOMAIN rp.remotes : rp.remotes[k].name = remote_name
         THEN [raises |-> "no",
               value |-> <<rp.remotes[
                   CHOOSE k \in DOMAIN rp.remotes :
                       /\ rp.remotes[k].name = remote_name
                       /\ \A j \in 1..(k - 1) :
                              rp.remotes[j].name # remote_name]>>]
         ELSE [raises |-> "Error",
               error |-> <<"Error", "Remote not found for repository",
                           remote_name, rp.dest>>]
    ELSE [raises |-> "no", value |-> rp.remotes]

\* A command that is never forced.
fetch_cmd_unforced(remote) == <<"fetch", "--tags", "--prune", remote.name>>

\* cmd = ["fetch", "--tags", "--prune", remote.name] (+ ["--force"])
fetch_cmd(remote) ==
    <<"fetch", "--tags", "--prune", remote.name>>
    \o (IF force THEN <<"--force">> ELSE <<>>)

\* A choice that never finds a ref.
select_ref_none(rp) == ""

\* A choice that takes the sha1 before the tag.
select_ref_sha1_first(rp) ==
    IF rp.sha1 # 0 THEN Sha1Names[rp.sha1]
    ELSE IF rp.tag # "" THEN rp.tag
    ELSE ""

\* ref = repo.tag, else repo.sha1, else None ("")
select_ref(rp) ==
    IF rp.tag # "" THEN rp.tag
    ELSE IF rp.sha1 # 0 THEN Sha1Names[rp.sha1]
    ELSE ""

\* process: summary = []; self.info_count(...)
Syncer_process ==
    /\ sync_pc = "process"
    /\ summary' = <<>>
    /\ term' = Task_info(term, <<"Synchronizing", repo.dest>>)
    /\ visited' = visited \cup {"process"}
    /\ sync_pc' = "fetch"
    /\ fetch_i' = 0
    /\ UNCHANGED <<items, num_jobs, parallel, main_pc, index, result, pc,
                   futures, loaded, done_count, lock, end_index, collected,
                   exception, collection, raised, report, calls, repo,
                   force, remote_name, bad_branches, picked, sync_error,
                   cmds, git, git0, bad_raised>>
    /\ UNCHANGED setterVars

\* fetch: for remote in self._pick_remotes(repo)
fetch_pick ==
    /\ sync_pc = "fetch"
    /\ fetch_i = 0
    /\ visited' = visited \cup {"fetch"}
    /\ LET r == pick_remotes(repo)
       IN  IF r.raises = "Error"
           THEN /\ sync_pc' = "raised"
                /\ sync_error' = r.error
                /\ UNCHANGED <<picked, fetch_i>>
           ELSE /\ picked' = r.value
                /\ fetch_i' = 1
                /\ UNCHANGED <<sync_pc, sync_error>>
    /\ UNCHANGED <<items, num_jobs, parallel, main_pc, index, result, pc,
                   futures, loaded, done_count, lock, term, end_index,
                   collected, exception, collection, raised, report, calls,
                   repo, force, remote_name, bad_branches, summary, cmds,
                   git, git0, bad_raised>>
    /\ UNCHANGED setterVars

\* fetch: one turn of the loop: git fetch of one remote, and the Error
\* "fetch from '<name>' failed" when it fails.
fetch ==
    /\ sync_pc = "fetch"
    /\ fetch_i \in 1..Len(picked)
    /\ LET remote == picked[fetch_i]
       IN  /\ term' = Task_info(term, <<"Fetching", remote.name>>)
           /\ cmds' = Append(cmds, fetch_cmd(remote))
           /\ \/ /\ git' \in FetchResults(git, remote, force)
                 /\ fetch_i' = fetch_i + 1
                 /\ UNCHANGED <<sync_pc, sync_error>>
              \/ /\ sync_pc' = "raised"
                 /\ sync_error' = <<"Error", "fetch failed", remote.name>>
                 /\ UNCHANGED <<git, fetch_i>>
    /\ UNCHANGED <<items, num_jobs, parallel, main_pc, index, result, pc,
                   futures, loaded, done_count, lock, end_index, collected,
                   exception, collection, raised, report, calls, repo,
                   force, remote_name, bad_branches, picked, summary, git0,
                   visited, bad_raised>>
    /\ UNCHANGED setterVars

\* process: the choice of the ref, and of the way to go on.
Syncer_select ==
    /\ sync_pc = "fetch"
    /\ fetch_i > Len(picked)
    /\ visited' = visited \cup {"fetched"}
    /\ IF select_ref(repo) # ""
       THEN /\ term' = Task_info(term, <<"Resetting to", select_ref(repo)>>)
            /\ sync_pc' = "sync_repo_to_ref"
       ELSE /\ term' = Task_info(term, <<"Updating branch">>)
            /\ sync_pc' = "check_branch"
    /\ UNCHANGED <<items, num_jobs, parallel, main_pc, index, result, pc,
                   futures, loaded, done_count, lock, end_index, collected,
                   exception, collection, raised, report, calls, repo,
                   force, remote_name, bad_branches, picked, fetch_i,
                   summary, sync_error, cmds, git, git0, bad_raised>>
    /\ UNCHANGED setterVars

\* A check that lets a dirty working tree through.
ref_guard_none(rp) == [raises |-> "no"]

\* status = get_git_status(repo_path); if status.dirty: raise Error(...)
ref_guard(rp) ==
    IF git.dirty
    THEN [raises |-> "Error",
          error |-> <<"Error", "is dirty, skipping">> \o repo_path(rp)]
    ELSE [raises |-> "no"]

\* sync_repo_to_ref: no reset of a dirty working tree; else
\* git reset --hard <ref>, and "updating ref failed" when it fails.
sync_repo_to_ref ==
    /\ sync_pc = "sync_repo_to_ref"
    /\ visited' = visited \cup {"sync_repo_to_ref"}
    /\ IF ref_guard(repo).raises = "Error"
       THEN /\ cmds' = Append(cmds, <<"status">>)
            /\ sync_pc' = "raised"
            /\ sync_error' = ref_guard(repo).error
            /\ UNCHANGED git
       ELSE \E reset \in ResetHard(git, select_ref(repo)) :
            /\ cmds' = cmds \o <<<<"status">>,
                                 <<"reset", "--hard", select_ref(repo)>>>>
            /\ IF reset.ok
               THEN /\ git' = reset.git
                    /\ sync_pc' = "update_submodules"
                    /\ UNCHANGED sync_error
               ELSE /\ sync_pc' = "raised"
                    /\ sync_error' = <<"Error", "updating ref failed">>
                    /\ UNCHANGED git
    /\ UNCHANGED <<items, num_jobs, parallel, main_pc, index, result, pc,
                   futures, loaded, done_count, lock, term, end_index,
                   collected, exception, collection, raised, report, calls,
                   repo, force, remote_name, bad_branches, picked, fetch_i,
                   summary, git0, bad_raised>>
    /\ UNCHANGED setterVars

\* A check that notes nothing.
note_bad_branch_never(bad, rp, current_branch) == bad

\* if current_branch and current_branch != repo.branch:
\*     self.bad_branches.append((repo.dest, current_branch, repo.branch))
note_bad_branch(bad, rp, current_branch) ==
    IF current_branch # "" /\ current_branch # rp.branch
    THEN Append(bad, [dest |-> rp.dest, actual |-> current_branch,
                      expected |-> rp.branch])
    ELSE bad

\* A check that lets a detached HEAD through.
branch_fatal_never(current_branch, rp) == FALSE

\* A check that stops at any branch but repo.branch.
branch_fatal_strict(current_branch, rp) ==
    current_branch = "" \/ current_branch # rp.branch

\* try: current_branch = get_current_branch(repo_path)
\* except Error: raise Error("Not on any branch")
branch_fatal(current_branch, rp) == current_branch = ""

\* check_branch: "Not on any branch" for a detached HEAD; another branch
\* than repo.branch is noted in self.bad_branches.
check_branch ==
    /\ sync_pc = "check_branch"
    /\ visited' = visited \cup {"check_branch"}
    /\ cmds' = Append(cmds, <<"get_current_branch">>)
    /\ IF branch_fatal(git.branch, repo)
       THEN /\ sync_pc' = "raised"
            /\ sync_error' = <<"Error", "Not on any branch">>
            /\ UNCHANGED bad_branches
       ELSE /\ bad_branches' = note_bad_branch(bad_branches, repo, git.branch)
            /\ sync_pc' = "sync_repo_to_branch"
            /\ UNCHANGED sync_error
    /\ UNCHANGED <<items, num_jobs, parallel, main_pc, index, result, pc,
                   futures, loaded, done_count, lock, term, end_index,
                   collected, exception, collection, raised, report, calls,
                   repo, force, remote_name, picked, fetch_i, summary, git,
                   git0, bad_raised>>
    /\ UNCHANGED setterVars

\* out += "\n" unless out ends with one
EnsureNewline(out) ==
    IF out # <<>> /\ out[Len(out)] = "\n" THEN out ELSE Append(out, "\n")

\* "-" * n
Dashes(n) == [k \in 1..n |-> "-"]

\* [repo.dest + "\n" + "-" * len(repo.dest) + "\n", out]
MergeSummary(rp, out) ==
    <<<<rp.dest, "\n", Dashes(Len(rp.dest)), "\n">>, EnsureNewline(out)>>

\* A test that never finds the branch up to date.
up_to_date_never(log) == FALSE

\* A test that takes a log that failed for one that listed nothing.
up_to_date_any(log) == log.out = {}

\* if rc == 0 and not out: return None
up_to_date(log) == log.rc = 0 /\ log.out = {}

\* sync_repo_to_branch, run in parallel: git log, and the merge unless the
\* log ran and listed nothing.
sync_repo_to_branch_parallel ==
    IF up_to_date(LogUpstream(git))
    THEN /\ cmds' = Append(cmds, <<"log", "--oneline", "HEAD..@{upstream}">>)
         /\ sync_pc' = "update_submodules"
         /\ UNCHANGED <<git, summary, sync_error>>
    ELSE \E merge \in MergeFF(git), out \in MergeOutputs :
         /\ cmds' = cmds \o <<<<"log", "--oneline", "HEAD..@{upstream}">>,
                              <<"merge", "--ff-only", "@{upstream}">>>>
         /\ IF merge.ok
            THEN /\ git' = merge.git
                 /\ summary' = summary \o MergeSummary(repo, out)
                 /\ sync_pc' = "update_submodules"
                 /\ UNCHANGED sync_error
            ELSE /\ sync_pc' = "raised"
                 /\ sync_error' = GitError("merge")
                 /\ UNCHANGED <<git, summary>>

\* sync_repo_to_branch, not run in parallel: the merge, and "updating branch
\* failed" when it fails.
sync_repo_to_branch_sequence ==
    \E merge \in MergeFF(git) :
        /\ cmds' = Append(cmds, <<"merge", "--ff-only", "@{upstream}">>)
        /\ UNCHANGED summary
        /\ IF merge.ok
           THEN /\ git' = merge.git
                /\ sync_pc' = "update_submodules"
                /\ UNCHANGED sync_error
           ELSE /\ sync_pc' = "raised"
                /\ sync_error' = <<"Error", "updating branch failed">>
                /\ UNCHANGED git

sync_repo_to_branch ==
    /\ sync_pc = "sync_repo_to_branch"
    /\ visited' = visited \cup {"sync_repo_to_branch"}
    /\ IF parallel THEN sync_repo_to_branch_parallel
                   ELSE sync_repo_to_branch_sequence
    /\ UNCHANGED <<items, num_jobs, parallel, main_pc, index, result, pc,
                   futures, loaded, done_count, lock, term, end_index,
                   collected, exception, collection, raised, report, calls,
                   repo, force, remote_name, bad_branches, picked, fetch_i,
                   git0, bad_raised>>
    /\ UNCHANGED setterVars

\* update_submodules, and process's return of its summary.
update_submodules ==
    /\ sync_pc = "update_submodules"
    /\ visited' = visited \cup {"update_submodules"}
    /\ cmds' = Append(cmds, <<"submodule", "update", "--init", "--recursive">>)
    /\ \/ /\ sync_pc' = "returned"
          /\ UNCHANGED sync_error
       \/ /\ sync_pc' = "raised"
          /\ sync_error' = GitError("submodule")
    /\ UNCHANGED <<items, num_jobs, parallel, main_pc, index, result, pc,
                   futures, loaded, done_count, lock, term, end_index,
                   collected, exception, collection, raised, report, calls,
                   repo, force, remote_name, bad_branches, picked, fetch_i,
                   summary, git, git0, bad_raised>>
    /\ UNCHANGED setterVars

\* What the executor keeps of task.process: what it returned (for Syncer, a
\* list of tokens), or Outcome.from_error of the Error it raised.
Returned(tokens) == [tokens |-> tokens]

Executor_capture ==
    /\ main_pc = "task.process"
    /\ sync_pc \in {"returned", "raised"}
    /\ result' = DictSet(result, Syncer_describe_item(repo),
                         IF sync_pc = "raised" THEN from_error(sync_error)
                                               ELSE Returned(summary))
    /\ main_pc' = "return"
    /\ UNCHANGED syncVars
    /\ UNCHANGED <<items, num_jobs, parallel, index, pc, futures, loaded,
                   done_count, lock, term, end_index, collected, exception,
                   collection, raised, report, calls>>
    /\ UNCHANGED setterVars

\* display_bad_branches: BadBranches when a repo was on another branch.
display_bad_branches ==
    /\ sync_pc \in {"returned", "raised"}
    /\ bad_raised = "no"
    /\ IF bad_branches = <<>>
       THEN /\ bad_raised' = "returned"
            /\ UNCHANGED term
       ELSE /\ term' = [term EXCEPT !.lines =
                           Append(@, <<"Some projects were not on the correct branch">>)]
            /\ bad_raised' = "BadBranches"
    /\ UNCHANGED <<items, num_jobs, parallel, main_pc, index, result, pc,
                   futures, loaded, done_count, lock, end_index, collected,
                   exception, collection, raised, report, calls, repo,
                   force, remote_name, bad_branches, sync_pc, picked,
                   fetch_i, summary, sync_error, cmds, git, git0, visited>>
    /\ UNCHANGED setterVars

\* ------------------------------------------------------------ RemoteSetter
\* git remote get-url <name>: the url, or a failure when there is no such
\* remote.
GitRemoteGetUrl(local, name) ==
    IF name \in DictKeys(local) THEN [rc |-> 0, out |-> DictGet(local, name)]
                                ELSE [rc |-> 2, out |-> ""]

\* git remote add <name> <url> and git remote set-url <name> <url>, when
\* they succeed.
GitRemoteSet(local, name, url) == DictSet(local, name, url)

\* The urls a clone may have for a remote of the manifest: the manifest's,
\* or an old one.
OldUrl == "old-url"

SetterDests == <<"foo", "bar">>

SetterRepos ==
    UNION {
        {[k \in 1..n |-> [dest |-> SetterDests[k],
                          remotes |-> SubSeq(RemoteTable, 1, len[k])]] :
            len \in [1..n -> 1..MaxRemotes]} :
        n \in 1..Len(SetterDests)}

\* The remotes a clone has: for each name, none, the manifest's url or the
\* old url.
LocalRemotes ==
    LET choices == [1..MaxRemotes -> {"none", "same", "old"}]
        kept(ch) == SelectSeq([k \in 1..MaxRemotes |-> k],
                              LAMBDA k : ch[k] # "none")
    IN  {[k \in DOMAIN kept(ch) |->
            <<RemoteTable[kept(ch)[k]].name,
              IF ch[kept(ch)[k]] = "same" THEN RemoteTable[kept(ch)[k]].url
                                          ELSE OldUrl>>] :
         ch \in choices}

\* RemoteSetter.__init__, and a sequential executor about to run it.
InitSetter ==
    /\ items = <<>>
    /\ num_jobs = None
    /\ parallel = FALSE
    /\ main_pc = "task.process"
    /\ ExecIdle
    /\ SyncIdle
    /\ rs_repos \in SetterRepos
    /\ rs_local \in [1..Len(rs_repos) -> LocalRemotes]
    /\ rs_local0 = rs_local
    /\ rs_summary = <<>>
    /\ rs_cmds = <<>>
    /\ rs_pc = "process"
    /\ rs_index = 1
    /\ rs_j = 1
    /\ rs_result = <<>>
    /\ rs_first = <<>>

\* A lookup that never finds the remote.
get_remote_none(local, name) == None

\* get_remote: None, or the Remote of that name with its url in the clone.
get_remote(local, name) ==
    IF GitRemoteGetUrl(local, name).rc # 0
    THEN None
    ELSE <<"Remote", name, GitRemoteGetUrl(local, name).out>>

\* A choice that sets the url of every remote that exists.
decide_set_always(existing_remote, remote) ==
    IF existing_remote # None THEN "set_remote" ELSE "add_remote"

\* process: what is done about one remote of the manifest.
decide(existing_remote, remote) ==
    IF existing_remote # None
    THEN IF existing_remote[3] # remote.url THEN "set_remote" ELSE "nothing"
    ELSE "add_remote"

\* set_remote: message
set_message(rp, remote) ==
    <<rp.dest, ":", "Update remote", remote.name, "to new url:", remote.url>>

\* add_remote: message
add_message(rp, remote) ==
    <<rp.dest, ":", "Add remote", remote.name, remote.url>>

\* self.summary[:-1] != "\n": a list is never equal to a str.
ListIsNotStr(list, str) == TRUE

\* set_remote: self.summary += [*message]
set_summary(sm, rp, remote) == sm \o set_message(rp, remote)

\* add_remote: a "\n" after what is there, then the message.
add_summary(sm, rp, remote) ==
    (IF sm # <<>> /\ ListIsNotStr(SubSeq(sm, 1, Len(sm) - 1), "\n")
     THEN sm \o <<"\n">>
     ELSE sm)
    \o add_message(rp, remote)

\* The executor goes on with the next repo, or is done.
SetterNext ==
    /\ rs_index' = rs_index + 1
    /\ rs_j' = 1
    /\ rs_pc' = IF rs_index = Len(rs_repos) THEN "done" ELSE "process"

\* What the executor keeps of a process that returned: self.summary itself,
\* the one list of the task.
SharedSummary == [list |-> "RemoteSetter.summary"]

\* process: one turn of the loop over repo.remotes; a git command that
\* fails ends process with its Error, which the executor keeps.
RemoteSetter_process ==
    /\ rs_pc = "process"
    /\ rs_j <= Len(rs_repos[rs_index].remotes)
    /\ LET rp == rs_repos[rs_index]
           remote == rp.remotes[rs_j]
           local == rs_local[rs_index]
           what == decide(get_remote(local, remote.name), remote)
           get == <<rp.dest, "remote", "get-url", remote.name>>
       IN  IF what = "nothing"
           THEN /\ rs_cmds' = Append(rs_cmds, get)
                /\ rs_j' = rs_j + 1
                /\ UNCHANGED <<rs_local, rs_summary, rs_pc, rs_index,
                               rs_result, term>>
           ELSE /\ term' = Task_info(term,
                                     IF what = "set_remote"
                                     THEN set_message(rp, remote)
                                     ELSE add_message(rp, remote))
                /\ rs_summary' = IF what = "set_remote"
                                 THEN set_summary(rs_summary, rp, remote)
                                 ELSE add_summary(rs_summary, rp, remote)
                /\ rs_cmds' = rs_cmds \o
                       <<get,
                         <<rp.dest, "remote",
                           IF what = "set_remote" THEN "set-url" ELSE "add",
                           remote.name, remote.url>>>>
                /\ \/ /\ rs_local' =
                            [rs_local EXCEPT ![rs_index] =
                                GitRemoteSet(local, remote.name, remote.url)]
                      /\ rs_j' = rs_j + 1
                      /\ UNCHANGED <<rs_pc, rs_index, rs_result>>
                   \/ /\ rs_result' = DictSet(rs_result, rp.dest,
                                              from_error(GitError("remote")))
                      /\ SetterNext
                      /\ UNCHANGED rs_local
    /\ UNCHANGED <<rs_repos, rs_local0, rs_first>>
    /\ UNCHANGED syncVars
    /\ UNCHANGED <<items, num_jobs, parallel, main_pc, index, result, pc,
                   futures, loaded, done_count, lock, end_index, collected,
                   exception, collection, raised, report, calls>>

\* process: return self.summary, which the executor keeps for the repo.
RemoteSetter_return ==
    /\ rs_pc = "process"
    /\ rs_j > Len(rs_repos[rs_index].remotes)
    /\ rs_result' = DictSet(rs_result, rs_repos[rs_index].dest, SharedSummary)
    /\ SetterNext
    /\ UNCHANGED <<rs_repos, rs_local, rs_local0, rs_summary, rs_cmds,
                   rs_first>>
    /\ UNCHANGED syncVars
    /\ UNCHANGED execVars

\* The same manifest is applied to the same clones once more: by the same
\* task, whose summary is still there, or by a new one (__init__).
RemoteSetter_again ==
    /\ rs_pc = "done"
    /\ rs_first = <<>>
    /\ rs_first' = <<[local0 |-> rs_local0, cmds |-> rs_cmds,
                     summary |-> rs_summary, result |-> rs_result]>>
    /\ rs_summary' \in {rs_summary, <<>>}
    /\ rs_local0' = rs_local
    /\ rs_cmds' = <<>>
    /\ rs_result' = <<>>
    /\ rs_pc' = "process"
    /\ rs_index' = 1
    /\ rs_j' = 1
    /\ UNCHANGED <<rs_repos, rs_local>>
    /\ UNCHANGED syncVars
    /\ UNCHANGED execVars

\* --------------------------------------------------------------------- Spec
Next ==
    \/ process_items
    \/ SequentialExecutor_process
    \/ \E i \in 1..count :
          \/ Dequeue(i)
          \/ StartLock(i)
          \/ StartPrint(i)
          \/ Process(i)
          \/ Store(i)
          \/ EndLock(i)
          \/ EndPrint(i)
          \/ EndNewline(i)
          \/ Collect(i)
    \/ ParallelExecutor_return
    \/ OutcomeCollection_init
    \/ handle_result

Spec == Init /\ [][Next]_vars

\* One repo synchronized: Syncer.process under an executor.
NextSync ==
    \/ Syncer_process
    \/ fetch_pick
    \/ fetch
    \/ Syncer_select
    \/ sync_repo_to_ref
    \/ check_branch
    \/ sync_repo_to_branch
    \/ update_submodules
    \/ Executor_capture
    \/ OutcomeCollection_init
    \/ handle_result
    \/ display_bad_branches

SpecSync == SyncInit /\ [][NextSync]_vars

\* RemoteSetter.process run on each repo in turn.
NextSetter ==
    \/ RemoteSetter_process
    \/ RemoteSetter_return
    \/ RemoteSetter_again

SpecSetter == InitSetter /\ [][NextSetter]_vars

\* An OutcomeCollection built from any map of outcomes, then handle_result.
OutcomeValues ==
    {empty, from_summary(<<"str", "done">>), from_summary(<<"str", "more">>),
     from_summary(<<"str", "">>),
     from_error(<<"Error", "Kaboom">>),
     Outcome(<<"Error", "Kaboom">>, <<"str", "done">>)}

OutcomeMaps ==
    UNION {
        {[k \in 1..n |-> <<ItemNames[k], values[k]>>] :
            values \in [1..n -> OutcomeValues]} :
        n \in 0..MaxItems}

InitColl ==
    /\ items = <<>>
    /\ num_jobs = None
    /\ parallel = FALSE
    /\ main_pc = "return"
    /\ index = 0
    /\ result \in OutcomeMaps
    /\ pc = <<>>
    /\ futures = <<>>
    /\ loaded = <<>>
    /\ done_count = 0
    /\ lock = 0
    /\ term = [lines |-> <<>>, current |-> <<>>]
    /\ end_index = <<>>
    /\ collected = {}
    /\ exception = None
    /\ collection = [summary |-> <<>>, errors |-> <<>>]
    /\ raised = FALSE
    /\ report = <<>>
    /\ calls = <<>>
    /\ SyncIdle
    /\ SetterIdle

NextColl ==
    \/ OutcomeCollection_init
    \/ handle_result

SpecColl == InitColl /\ [][NextColl]_vars

\* ------------------------------------------------------------------ claims
\* The executor has returned its map (and a collection may be built of it).
ExecutorReturned == main_pc \in {"return", "collection", "handled"}

Descriptions == {describe_item(items[i]) : i \in 1..count}

Raising == {i \in 1..count : TaskProcess(items[i]).raises = "Error"}

\* C1: failure isolation.  When task.process raises the domain Error for
\* some items, the map an executor returns (sequential, or parallel with
\* any num_jobs >= 1 and any interleaving) gives each failing item an
\* outcome whose error is the raised error and each other item its own
\* outcome; task.process was called exactly once for every item; and the
\* errors of the OutcomeCollection have exactly the failing items'
\* descriptions as keys.
C1_FailureIsolation ==
    (ExecutorReturned /\ Raising # {}) =>
        /\ DictKeys(result) = Descriptions
        /\ \A i \in 1..count :
              /\ calls[i] = 1
              /\ DictGet(result, describe_item(items[i])) =
                    IF i \in Raising
                    THEN from_error(TaskProcess(items[i]).error)
                    ELSE TaskProcess(items[i]).value
        /\ main_pc \in {"collection", "handled"} =>
              DictKeys(collection.errors) =
                  {describe_item(items[i]) : i \in Raising}

C1_Witness ==
    /\ main_pc = "handled"
    /\ parallel
    /\ num_jobs = <<"int", MaxJobs>>
    /\ count >= 2
    /\ Raising # {}
    /\ Raising # 1..count
    /\ raised

\* C2: for items with pairwise distinct descriptions (the empty list too)
\* and a task whose process never raises, the map either executor returns
\* has exactly the items' descriptions as keys, and every outcome in it is
\* successful.
C2_KeysAndSuccess ==
    (ExecutorReturned /\ \A i \in 1..count : TaskProcess(items[i]).raises = "no")
        => /\ DictKeys(result) = Descriptions
           /\ Len(result) = count
           /\ \A k \in DOMAIN result : success(result[k][2])

C2_Witness ==
    /\ main_pc = "return"
    /\ ~parallel
    /\ count = MaxItems
    /\ \A i \in 1..count : TaskProcess(items[i]).raises = "no"
    /\ Len(result) = count

\* C5: handle_result raises ExecutorFailed exactly when some outcome of the
\* collected map carried an error; it returns normally when none did,
\* whatever the summaries are.
C5_RaisesIffError ==
    /\ main_pc # "crashed"
    /\ main_pc = "handled" =>
          (raised <=> \E k \in DOMAIN result : result[k][2].error # None)

C5_Witness ==
    /\ main_pc = "handled"
    /\ raised
    /\ \E k \in DOMAIN result :
          /\ result[k][2].error # None
          /\ Truthy(result[k][2].summary)
    /\ \E k \in DOMAIN result : result[k][2] = from_summary(<<"str", "done">>)

RECURSIVE SeqRun(_)
\* The map SequentialExecutor.process builds of the first k items.
SeqRun(k) == IF k = 0 THEN <<>> ELSE SeqTurn(SeqRun(k - 1), items[k])

Range(f) == {f[i] : i \in DOMAIN f}

\* C6: for the same items, the parallel executor (any num_jobs >= 1, any
\* interleaving) and the sequential executor return maps with the same
\* keys, and the OutcomeCollections built of them have the same set of
\* summaries and the same errors map.
C6_Equivalence ==
    /\ (ExecutorReturned /\ ~parallel) => result = SeqRun(count)
    /\ (ExecutorReturned /\ parallel) =>
          /\ DictKeys(result) = DictKeys(SeqRun(count))
          /\ Range(CollectionSummary(result)) =
                Range(CollectionSummary(SeqRun(count)))
          /\ Range(CollectionErrors(result)) =
                Range(CollectionErrors(SeqRun(count)))
          /\ Len(CollectionErrors(result)) =
                Len(CollectionErrors(SeqRun(count)))
    /\ (main_pc \in {"collection", "handled"} /\ parallel) =>
          /\ Range(collection.summary) =
                Range(CollectionSummary(SeqRun(count)))
          /\ Range(collection.errors) =
                Range(CollectionErrors(SeqRun(count)))

C6_Witness ==
    /\ main_pc = "collection"
    /\ parallel
    /\ count = MaxItems
    /\ Raising # {}
    /\ collection.summary # <<>>
    /\ result # SeqRun(count)

\* ---------------------------------------------------------- claims: Syncer
\* The repo is pinned to a ref: its tag or its sha1 is set.
RefMode == repo.tag # "" \/ repo.sha1 # 0

BranchMode == repo.tag = "" /\ repo.sha1 = 0

\* The executor has recorded what Syncer.process did for the repo.
Captured == main_pc \in {"return", "collection", "handled", "crashed"}

DirtyError == <<"Error", "is dirty, skipping", workspace_path, repo.dest>>

\* C3: dirty-tree safety.  For a repo pinned to a ref whose working tree is
\* dirty after the fetch step, no reset --hard is ever issued, the working
\* tree is left as it was, sync_repo_to_ref ends process with the error
\* "<path> is dirty, skipping", and that error is the repo's outcome.
C3_DirtyTreeSafety ==
    (RefMode /\ git0.dirty) =>
        /\ \A k \in DOMAIN cmds : cmds[k][1] # "reset"
        /\ git.dirty
        /\ git.head = git0.head
        /\ git.branch = git0.branch
        /\ sync_pc # "returned"
        /\ "sync_repo_to_ref" \in visited =>
              /\ sync_pc = "raised"
              /\ sync_error = DirtyError
        /\ (Captured /\ "sync_repo_to_ref" \in visited) =>
              DictGet(result, repo.dest) = from_error(DirtyError)

C3_Witness ==
    /\ main_pc = "handled"
    /\ raised
    /\ RefMode
    /\ git0.dirty
    /\ "sync_repo_to_ref" \in visited
    /\ collection.errors = <<<<repo.dest, DirtyError>>>>

\* The clone was on another branch than repo.branch when check_branch ran.
WrongBranch ==
    /\ BranchMode
    /\ "check_branch" \in visited
    /\ git0.branch \notin {"", repo.branch}

IncorrectBranch == <<"Error", "IncorrectBranch", git0.branch, repo.branch>>

C8_RefPostcondition ==
    (RefMode /\ sync_pc = "returned") =>
        /\ repo.tag # "" => (git.tag # 0 /\ git.head = git.tag)
        /\ repo.tag = "" => git.head = repo.sha1
        /\ ~git.dirty

C8_Witness ==
    /\ sync_pc = "returned"
    /\ repo.tag # ""
    /\ force
    /\ git0.tag # 0
    /\ git.tag # git0.tag
    /\ git.head = git.tag
    /\ git.head # git0.head

\* The fetch commands that were run, in order.
Fetched == SelectSeq(cmds, LAMBDA c : c[1] = "fetch")

Named(name) == {k \in DOMAIN repo.remotes : repo.remotes[k].name = name}

RemoteNotFound ==
    <<"Error", "Remote not found for repository", remote_name, repo.dest>>

\* C9: remote selection.  With a remote_name that a remote of the repo
\* has, that remote is fetched and no other.  With a remote_name that no
\* remote of the repo has, no command at all is run for the repo and its
\* outcome is the error "Remote <name> not found for repository <dest>".
\* Without a remote_name, all remotes are selected, in manifest order.
C9_RemoteSelection ==
    /\ (remote_name # "" /\ Named(remote_name) # {}) =>
          /\ \A k \in DOMAIN Fetched : Fetched[k][4] = remote_name
          /\ Len(Fetched) <= 1
          /\ (sync_pc # "fetch" /\ "fetch" \in visited) => Len(Fetched) = 1
          /\ sync_error # RemoteNotFound
    /\ (remote_name # "" /\ Named(remote_name) = {}) =>
          /\ cmds = <<>>
          /\ git = git0
          /\ "fetch" \in visited =>
                (sync_pc = "raised" /\ sync_error = RemoteNotFound)
          /\ Captured => DictGet(result, repo.dest) = from_error(RemoteNotFound)
    /\ (remote_name = "" /\ "fetch" \in visited) =>
          /\ picked = repo.remotes
          /\ \A k \in DOMAIN Fetched : Fetched[k][4] = repo.remotes[k].name

C9_Witness ==
    /\ remote_name = "vpn"
    /\ Len(repo.remotes) = MaxRemotes
    /\ "fetched" \in visited
    /\ Len(Fetched) = 1
    /\ Fetched[1][4] = "vpn"
    /\ sync_pc = "returned"

\* Syncer.process has ended.
Ended == sync_pc \in {"returned", "raised"}

ExpectedFetch(k) ==
    IF force THEN <<"fetch", "--tags", "--prune", picked[k].name, "--force">>
             ELSE <<"fetch", "--tags", "--prune", picked[k].name>>

\* C10 as stated: in every run of process, fetch is run exactly once for
\* each selected remote, forced iff the syncer is, and for no other.
C10_Original ==
    Ended =>
        /\ Len(Fetched) = Len(picked)
        /\ \A k \in DOMAIN Fetched : Fetched[k] = ExpectedFetch(k)

\* C10, as the code has it: the fetch commands of a run are those of the
\* selected remotes, in order, up to the first that fails: never one of a
\* remote that was not selected, none twice, forced iff the syncer is, all
\* of them when no fetch fails, and none after the one that failed.
C10_FetchPrefix ==
    /\ Len(Fetched) <= Len(picked)
    /\ \A k \in DOMAIN Fetched : Fetched[k] = ExpectedFetch(k)
    /\ \A j, k \in DOMAIN Fetched : Fetched[j] = Fetched[k] => j = k
    /\ "fetched" \in visited => Len(Fetched) = Len(picked)
    /\ (sync_pc = "raised" /\ "fetched" \notin visited /\ picked # <<>>) =>
          /\ Fetched # <<>>
          /\ sync_error = <<"Error", "fetch failed",
                            picked[Len(Fetched)].name>>

C10_Witness ==
    /\ Ended
    /\ force
    /\ Len(picked) = MaxRemotes
    /\ Len(Fetched) = 1
    /\ sync_error = <<"Error", "fetch failed", picked[1].name>>

\* ------------------------------------------------- claims: process_items
\* Tasks whose process may also raise an exception that is no Error.
MaxCrashItems == 2

CrashLists ==
    UNION {
        {[k \in 1..n |-> [name |-> ItemNames[k], kind |-> kinds[k]]] :
            kinds \in [1..n -> AllKinds]} :
        n \in 0..MaxCrashItems}

InitCrash ==
    /\ items \in CrashLists
    /\ num_jobs \in {None} \cup {<<"int", n>> : n \in 1..MaxJobs}
    /\ main_pc = "process_items"
    /\ parallel = FALSE
    /\ ExecIdle
    /\ SyncIdle
    /\ SetterIdle

SpecCrash == InitCrash /\ [][Next]_vars

Positive(n) == n # None /\ n[2] > 0

\* C11 as stated: process_items runs the parallel executor, with
\* task.parallel true, exactly when num_jobs is set and positive; for any
\* other num_jobs (unset, zero, negative) it sets task.parallel false and
\* runs the sequential executor; either way an OutcomeCollection is built
\* of the executor's map.
C11_Original ==
    main_pc # "process_items" =>
        /\ parallel <=> Positive(num_jobs)
        /\ ~Positive(num_jobs) => main_pc \in {"sequential", "return",
                                               "collection", "handled"}
        /\ main_pc # "crashed"

Crashing == {i \in 1..count : TaskProcess(items[i]).raises = "Exception"}

\* C12 as stated: whatever a worker's task.process raises is captured as
\* the item's error outcome: ParallelExecutor.process never fails because
\* a worker failed and returns an entry for every item.
C12_Original ==
    parallel =>
        /\ main_pc # "crashed"
        /\ (\A i \in 1..count : pc[i] = "done" /\ i \in collected) =>
              DictKeys(result) = Descriptions

\* C12, as the code has it: a domain Error raised in a worker's
\* task.process is captured as that item's error outcome, and the map
\* ParallelExecutor.process returns has an entry for every item; an
\* exception that is no Error is not captured: it leaves
\* ParallelExecutor.process, once every submitted call has ended, and no
\* map is returned.
C12_OnlyErrorCaptured ==
    parallel =>
        /\ ExecutorReturned =>
              /\ Crashing = {}
              /\ DictKeys(result) = Descriptions
              /\ \A i \in Raising :
                    DictGet(result, describe_item(items[i])) =
                        from_error(TaskProcess(items[i]).error)
        /\ main_pc \in {"shutdown", "crashed"} =>
              /\ exception \in {TaskProcess(items[i]).error : i \in Crashing}
              /\ result = <<>> \/ DictKeys(result) # Descriptions
        /\ main_pc = "crashed" => \A i \in 1..count : pc[i] = "done"

C12_Witness ==
    /\ parallel
    /\ main_pc = "crashed"
    /\ count = MaxCrashItems
    /\ Raising # {}
    /\ Crashing # {}
    /\ result # <<>>

\* ---------------------------------------------------- claims: RemoteSetter
\* The commands that change the remotes of the clone of the i-th repo.
Mutating(i) ==
    SelectSeq(rs_cmds, LAMBDA c : /\ c[1] = rs_repos[i].dest
                                  /\ c[3] \in {"add", "set-url"})

RECURSIVE RemotePlan(_, _)
\* The commands the first k remotes of the i-th repo ask for, given the
\* remotes its clone had at the start.
RemotePlan(i, k) ==
    IF k = 0 THEN <<>>
    ELSE LET rp == rs_repos[i]
             remote == rp.remotes[k]
         IN  RemotePlan(i, k - 1) \o
             (IF remote.name \notin DictKeys(rs_local0[i])
              THEN <<<<rp.dest, "remote", "add", remote.name, remote.url>>>>
              ELSE IF DictGet(rs_local0[i], remote.name) # remote.url
              THEN <<<<rp.dest, "remote", "set-url", remote.name,
                       remote.url>>>>
              ELSE <<>>)

IsPrefix(a, b) == Len(a) <= Len(b) /\ a = SubSeq(b, 1, Len(a))

\* process has returned for the i-th repo.
SetterReturned(i) ==
    /\ rs_repos[i].dest \in DictKeys(rs_result)
    /\ DictGet(rs_result, rs_repos[i].dest) = SharedSummary

\* C13: RemoteSetter.process decides for each remote of the manifest, in
\* manifest order: one `remote add` when the clone has no remote of that
\* name, one `remote set-url` when it has one with another url, no
\* command that changes anything when it has one with that url.  After a
\* run that ended well, the clone has every remote of the manifest, with
\* the manifest's url.
C13_RemotesSet ==
    \A i \in DOMAIN rs_repos :
        /\ IsPrefix(Mutating(i), RemotePlan(i, Len(rs_repos[i].remotes)))
        /\ i = rs_index /\ rs_pc = "process" =>
              Mutating(i) = RemotePlan(i, rs_j - 1)
        /\ i > rs_index => Mutating(i) = <<>>
        /\ SetterReturned(i) =>
              /\ Mutating(i) = RemotePlan(i, Len(rs_repos[i].remotes))
              /\ \A k \in DOMAIN rs_repos[i].remotes :
                    /\ rs_repos[i].remotes[k].name \in DictKeys(rs_local[i])
                    /\ DictGet(rs_local[i], rs_repos[i].remotes[k].name) =
                          rs_repos[i].remotes[k].url

C13_Witness ==
    /\ rs_pc = "done"
    /\ Len(rs_repos) = 1
    /\ Len(rs_repos[1].remotes) = MaxRemotes
    /\ SetterReturned(1)
    /\ Len(Mutating(1)) = MaxRemotes
    /\ Mutating(1)[1][3] = "set-url"
    /\ Mutating(1)[MaxRemotes][3] = "add"

\* ----------------------------------------------- claims: OutcomeCollection
RECURSIVE NonEmptySummaries(_)
\* The summaries of the first k outcomes of the map that are neither None
\* nor the empty string, in the map's order.
NonEmptySummaries(k) ==
    IF k = 0 THEN <<>>
    ELSE NonEmptySummaries(k - 1) \o
         (IF result[k][2].summary \in {None, <<"str", "">>}
          THEN <<>>
          ELSE <<result[k][2].summary>>)

\* C14: the OutcomeCollection built of a map item -> Outcome has as its
\* summaries, in the map's order, exactly the non-empty summaries of the
\* outcomes, one entry per outcome at most, and as its errors exactly the
\* keys whose outcome has an error, each with that error; an outcome with
\* a summary and an error is in both.
C14_Partition ==
    main_pc \in {"collection", "handled"} =>
        /\ collection.summary = NonEmptySummaries(Len(result))
        /\ DictKeys(collection.errors) =
              {result[k][1] : k \in {j \in DOMAIN result :
                                        result[j][2].error # None}}
        /\ \A k \in DOMAIN result :
              result[k][2].error # None =>
                  DictGet(collection.errors, result[k][1]) = result[k][2].error
        /\ \A j, k \in DOMAIN collection.errors :
              collection.errors[j][1] = collection.errors[k][1] => j = k

C14_Witness ==
    /\ main_pc = "collection"
    /\ Len(result) = MaxItems
    /\ result[1][2] = from_summary(<<"str", "more">>)
    /\ result[2][2] = from_summary(<<"str", "">>)
    /\ result[MaxItems][2] = Outcome(<<"Error", "Kaboom">>, <<"str", "done">>)
    /\ collection.summary = <<<<"str", "more">>, <<"str", "done">>>>
    /\ Len(collection.errors) = 1

\* ------------------------------------------------ claims: ParallelExecutor
\* A parallel run over items whose task.process calls all return.
AllReturn ==
    /\ parallel
    /\ count >= 1
    /\ \A i \in 1..count : TaskProcess(items[i]).raises = "no"

AllFinished == \A i \in 1..count : pc[i] = "done"

\* C15 as stated: no update of done_count is lost: for every interleaving
\* of N workers whose task.process calls all return, done_count is N once
\* all of them have finished (and so took each value 1..N once).
C15_Original == (AllReturn /\ AllFinished) => done_count = count

\* The end-of-item lines written so far, and the newlines after them.
Newlines == Len(term.lines)

\* C16 as stated: in a parallel run over N >= 1 items that all succeed,
\* the newline after the end-of-item lines is written exactly once, by the
\* worker that ends last, and no end-of-item line is written after it.
C16_Original ==
    AllReturn =>
        /\ Newlines <= 1
        /\ AllFinished => Newlines = 1
        /\ Newlines = 1 => Len(end_index) = count

InSection(i) == pc[i] \in {"start_locked", "end_locked", "end_printed"}

\* C17: every erase + print sequence of a worker runs with the executor's
\* lock held: no two workers are in such a section at once, and between a
\* worker's erase and its print no other write reaches the terminal (the
\* line is still blank when it prints, and still its own when it ends the
\* section).
C17_MutualExclusion ==
    /\ \A i \in 1..count : InSection(i) <=> lock = i
    /\ \A i, j \in 1..count : (InSection(i) /\ InSection(j)) => i = j
    /\ \A i \in 1..count :
          /\ pc[i] \in {"start_locked", "end_locked"} => term.current = <<>>
          /\ pc[i] = "end_printed" =>
                term.current[3] = describe_process_end(item_of(i))
    /\ lock # 0 => main_pc \in {"as_completed", "shutdown"}

C17_Witness ==
    /\ count = MaxItems
    /\ \E i, j \in 1..count :
          /\ pc[i] = "end_locked"
          /\ pc[j] = "start"
          /\ lock = i
    /\ \E k \in 1..count : pc[k] = "done"

\* ------------------------------------------- claims: the Syncer's pipeline
Issued(kind) == \E k \in DOMAIN cmds : cmds[k][1] = kind

LastIssued == IF cmds = <<>> THEN "" ELSE cmds[Len(cmds)][1]

FetchFailed == {<<"Error", "fetch failed", RemoteTable[k].name>> :
                   k \in DOMAIN RemoteTable}

MergeFailed == {<<"Error", "updating branch failed">>, GitError("merge")}

MergeHasFailed ==
    /\ sync_pc = "raised"
    /\ "sync_repo_to_branch" \in visited
    /\ "update_submodules" \notin visited

\* C20 as stated: when the fast-forward merge onto @{upstream} fails, the
\* repo's outcome is the error "updating branch failed", run in sequence
\* and run in parallel alike, and submodule update is not run.
C20_Original ==
    MergeHasFailed =>
        /\ sync_error = <<"Error", "updating branch failed">>
        /\ ~Issued("submodule")
        /\ Captured => DictGet(result, repo.dest) =
                          from_error(<<"Error", "updating branch failed">>)

\* ------------------------------------- claims: the end-of-item progress lines
\* C21 as stated: in every interleaving of a parallel run, the indexes the
\* end-of-item lines show grow from each line to the next, and are 0, 1,
\* ..., N-1 when all N items succeed.
C21_Original ==
    parallel =>
        /\ \A k \in 1..(Len(end_index) - 1) : end_index[k] < end_index[k + 1]
        /\ (AllReturn /\ AllFinished) =>
              end_index = [k \in 1..count |-> k - 1]

\* ------------------------------------------------ claims: the worker pool
\* The process_item calls that are at their task.process call.
InProgress == {i \in 1..count : pc[i] = "process"}

BeforeCall == {"none", "queued", "start", "start_locked", "process"}

\* C22: in a parallel run with num_jobs >= 1, at most num_jobs
\* task.process calls are in progress at any moment, task.process is
\* called once for each item (never twice, and once for every item by the
\* time the executor returns), and no worker holds the output lock while
\* its task.process call runs.
C22_BoundedParallelism ==
    (parallel /\ Positive(num_jobs)) =>
        /\ Cardinality(InProgress) <= num_jobs[2]
        /\ \A i \in 1..count :
              /\ calls[i] = IF pc[i] \in BeforeCall THEN 0 ELSE 1
              /\ pc[i] = "process" => lock # i
        /\ ExecutorReturned => \A i \in 1..count : calls[i] = 1

C22_Witness ==
    /\ parallel
    /\ count = MaxItems
    /\ num_jobs = <<"int", MaxJobs>>
    /\ Cardinality(InProgress) = MaxJobs
    /\ \E i \in 1..count : pc[i] = "queued"
    /\ lock = 0

\* ---------------------------------------------------- claims: termination
\* The threads of the run go on: as long as some step of the calling
\* thread or of a worker can be taken, a step is taken.
SpecLive == Init /\ [][Next]_vars /\ WF_vars(Next)

\* C23: when every task.process call ends (by returning or by raising the
\* domain Error), ParallelExecutor.process returns, for every list of items
\* and every num_jobs >= 1, with task.process called for every item: from
\* any moment of the run on, whichever calls are queued behind a failing
\* item or wait for the output lock, every submitted call runs to its end
\* and the map is returned.
C23_Termination ==
    (main_pc = "as_completed") ~>
        (/\ main_pc = "return"
         /\ \A i \in 1..count : pc[i] = "done" /\ calls[i] = 1)

C23_Witness ==
    /\ parallel
    /\ main_pc = "return"
    /\ count = MaxItems
    /\ num_jobs = <<"int", 1>>
    /\ items[1].kind = "failing"
    /\ \A i \in 1..count : pc[i] = "done" /\ calls[i] = 1

\* ------------------------------------------------ claims: ref or branch
\* The refs that reset --hard was run with, in order.
ResetRefs ==
    LET resets == SelectSeq(cmds, LAMBDA c : c[1] = "reset")
    IN  [k \in DOMAIN resets |-> resets[k][3]]

\* C24: the ref is repo.tag when that is set, else repo.sha1 when that is
\* set, else there is none.  A repo with a ref is reset to that ref and to
\* nothing else, no merge --ff-only (and no log against the upstream) is
\* run on it, and its HEAD moves nowhere but to that ref, whatever the
\* fetch brought; on a repo without a ref no reset --hard is run.
C24_RefOrBranch ==
    /\ repo.tag # "" =>
          \A k \in DOMAIN ResetRefs : ResetRefs[k] = repo.tag
    /\ (repo.tag = "" /\ repo.sha1 # 0) =>
          \A k \in DOMAIN ResetRefs : ResetRefs[k] = Sha1Names[repo.sha1]
    /\ (repo.tag # "" \/ repo.sha1 # 0) =>
          /\ Len(ResetRefs) <= 1
          /\ ~Issued("merge") /\ ~Issued("log")
          /\ ~Issued("get_current_branch")
          /\ visited \cap {"check_branch", "sync_repo_to_branch"} = {}
          /\ git.head # git0.head =>
                /\ ResetRefs # <<>>
                /\ git.head = ResolveRef(git, ResetRefs[1])
          /\ sync_pc = "returned" => Len(ResetRefs) = 1
    /\ (repo.tag = "" /\ repo.sha1 = 0) =>
          /\ ResetRefs = <<>>
          /\ "sync_repo_to_ref" \notin visited
          /\ sync_pc = "returned" => "sync_repo_to_branch" \in visited

C24_Witness ==
    /\ sync_pc = "returned"
    /\ repo.tag # ""
    /\ repo.sha1 # 0
    /\ ResetRefs = <<repo.tag>>
    /\ git.head # git0.head
    /\ git.head # repo.sha1
    /\ git.upstream \notin {0, git.head, git0.upstream}

\* --------------------------------------- claims: sync_repo_to_branch's summary
\* What git log --oneline HEAD..@{upstream} gave when sync_repo_to_branch
\* ran it: in branch mode HEAD is then still where it was at the start.
LogSeen == LogUpstream([git EXCEPT !.head = git0.head])

\* The merge onto @{upstream} was run and went well.
Merged ==
    /\ Issued("merge")
    /\ sync_error \notin MergeFailed

\* C25: run in parallel, sync_repo_to_branch runs the merge exactly when
\* the log did not end with exit code 0 and no output.  When the merge is
\* left out, nothing is added to the summary process returns; when it ran
\* (and went well), the summary is one block of two parts: the dest, a
\* newline, as many dashes as the dest is long, a newline; then git's
\* output, ending in a newline.
C25_ParallelSkip ==
    (parallel /\ "sync_repo_to_branch" \in visited) =>
        /\ Issued("log")
        /\ Issued("merge") <=> ~(LogSeen.rc = 0 /\ LogSeen.out = {})
        /\ ~Merged => summary = <<>>
        /\ Merged =>
              /\ Len(summary) = 2
              /\ summary[1] = <<repo.dest, "\n", Dashes(Len(repo.dest)), "\n">>
              /\ Len(summary[1][3]) = Len(summary[1][1])
              /\ summary[2] = <<"Fast-forward", "\n">>
        /\ (Captured /\ sync_pc = "returned") =>
              DictGet(result, repo.dest) = Returned(summary)

C25_Witness ==
    /\ parallel
    /\ sync_pc = "returned"
    /\ Merged
    /\ git.head # git0.head
    /\ Len(summary) = 2
    /\ Captured

\* ------------------------------------------------ claims: the reset's summary
ResetFragment == <<"Reset to", select_ref(repo)>>

\* C26 as stated: after a sync of a repo with a ref in which reset --hard
\* <ref> went well, the repo's outcome has the summary "Reset to <ref>",
\* and that summary is among those of the OutcomeCollection.
C26_Original ==
    (RefMode /\ sync_pc = "returned") =>
        /\ ResetFragment \in Range(summary)
        /\ Captured => /\ main_pc # "crashed"
                       /\ IsOutcome(DictGet(result, repo.dest))
        /\ main_pc \in {"collection", "handled"} =>
              ResetFragment \in Range(collection.summary)

\* ------------------------------------------- claims: the sequential executor
\* SequentialExecutor.process is running or has returned.
Sequential == main_pc # "process_items" /\ ~parallel

\* C27: SequentialExecutor calls task.process once for each item, in the
\* order of the list: when the loop is at item k+1, task.process has been
\* called, and has returned or raised, for each of the items 1..k (failing
\* ones too) and for no other, and nothing runs beside the loop; the keys
\* of the map are the descriptions of the items in the order of the list.
C27_SequentialOrder ==
    Sequential =>
        /\ index \in 0..count
        /\ \A i \in 1..count : calls[i] = IF i <= index THEN 1 ELSE 0
        /\ Len(result) = index
        /\ \A k \in 1..index :
              /\ result[k][1] = describe_item(items[k])
              /\ result[k][2] = SeqCapture(TaskProcess(items[k]))
        /\ \A i \in 1..count : pc[i] = "none"
        /\ ExecutorReturned => index = count

C27_Witness ==
    /\ Sequential
    /\ main_pc = "return"
    /\ count = MaxItems
    /\ items[1].kind = "failing"
    /\ items[MaxItems].kind = "summary"
    /\ Len(result) = MaxItems
    /\ result[MaxItems][1] = describe_item(items[MaxItems])

\* ------------------------------------------- claims: failing items and the count
\* C28 as stated: in a parallel run in which task.process raises for some
\* item, that item counts as a completion all the same: once every item
\* has finished, done_count is the number of items and the newline after
\* the end-of-item lines has been written exactly once.
C28_Original ==
    (parallel /\ Raising # {} /\ AllFinished) =>
        /\ done_count = count
        /\ Newlines = 1

\* ------------------------------------------- claims: RemoteSetter's summary
\* The lines of a summary that are about the repo of that dest: each
\* message starts with the dest.
LinesOf(sm, dest) == Len(SelectSeq(sm, LAMBDA t : t = dest))

\* C29 as stated: when one RemoteSetter processes several repos, what
\* process returns for a repo has the "Add remote" and "Update remote"
\* lines of that repo's remotes only, one line for each command that
\* changed a remote, and nothing for a repo with nothing to change.  (What
\* is returned is the task's list, as it stands.)
C29_Original ==
    \A i \in DOMAIN rs_repos :
        SetterReturned(i) =>
            /\ \A k \in DOMAIN rs_summary :
                  rs_summary[k] \in Range(SetterDests) =>
                      rs_summary[k] = rs_repos[i].dest
            /\ LinesOf(rs_summary, rs_repos[i].dest) = Len(Mutating(i))
            /\ Mutating(i) = <<>> => rs_summary = <<>>

\* ---------------------------------------------- claims: a second run
\* The first run over rs_repos ended well for the i-th repo.
FirstOk(i) ==
    /\ rs_first # <<>>
    /\ rs_repos[i].dest \in DictKeys(rs_first[1].result)
    /\ DictGet(rs_first[1].result, rs_repos[i].dest) = SharedSummary

\* The remote set-url commands for a remote of a repo, among cs.
SetUrls(cs, dest, name) ==
    Len(SelectSeq(cs, LAMBDA c : /\ c[1] = dest
                                 /\ c[3] = "set-url"
                                 /\ c[4] = name))

\* C30: RemoteSetter.process run once more on a repo, with the same
\* manifest, after a first run that ended well for it, runs no remote add
\* and no remote set-url (only the get-url queries), leaves the clone's
\* remotes as they are and adds no line about the repo to the summary; a
\* remote whose url had changed got its set-url once, in the first run.
C30_Idempotent ==
    \A i \in DOMAIN rs_repos :
        FirstOk(i) =>
            /\ Mutating(i) = <<>>
            /\ rs_local[i] = rs_local0[i]
            /\ LinesOf(rs_summary, rs_repos[i].dest) \in
                  {0, LinesOf(rs_first[1].summary, rs_repos[i].dest)}
            /\ \A k \in DOMAIN rs_repos[i].remotes :
                  LET remote == rs_repos[i].remotes[k]
                      before == rs_first[1].local0[i]
                  IN  /\ SetUrls(rs_cmds, rs_repos[i].dest, remote.name) = 0
                      /\ SetUrls(rs_first[1].cmds, rs_repos[i].dest,
                                 remote.name) =
                            IF /\ remote.name \in DictKeys(before)
                               /\ DictGet(before, remote.name) # remote.url
                            THEN 1 ELSE 0

C30_Witness ==
    /\ rs_first # <<>>
    /\ rs_pc = "done"
    /\ FirstOk(1)
    /\ SetterReturned(1)
    /\ SetUrls(rs_first[1].cmds, rs_repos[1].dest, "origin") = 1
    /\ Len(rs_repos[1].remotes) = MaxRemotes
    /\ Len(SelectSeq(rs_cmds, LAMBDA c : c[1] = rs_repos[1].dest)) =
          MaxRemotes
    /\ rs_summary = rs_first[1].summary
    /\ rs_summary # <<>>

====
